---------------------------- MODULE Spec2Model ----------------------------
(***************************************************************************)
(* A model of the chained hash table of src/hashmap.h (the implementation  *)
(* with count and resize, lines 263-542), at the widths of an LP64 build   *)
(* with gcc: int is 32 bits, unsigned long and size_t are 64 bits.         *)
(*                                                                         *)
(* TLC's integers are 32 bits wide, so an unsigned long is a tuple of four *)
(* 16-bit limbs, least significant first, and the bucket array is sparse:  *)
(* a function from the indices of the non-NULL heads to the head pointers. *)
(***************************************************************************)
EXTENDS Integers, Sequences, FiniteSets, TLC

(***************************************************************************)
(* Bounds of the model.                                                    *)
(***************************************************************************)
NumKeys == 4
MaxPairs == 4
MaxDirectSize == 8
MaxHashLen == 3
LongLen == 14

(***************************************************************************)
(* unsigned long arithmetic (64 bits, wrapping).                           *)
(***************************************************************************)
ULONG_LIMBS == 4
LIMB == 65536

Limbs == 1..ULONG_LIMBS

\* the values of an unsigned long
ULong == [Limbs -> 0..(LIMB - 1)]

\* the unsigned long with the value n, for 0 <= n < 2^31
UL(n) == <<n % LIMB, n \div LIMB, 0, 0>>

\* the conversion int -> unsigned long: a negative int wraps to 2^64 + n
IntToUL(n) ==
    IF n >= 0 THEN UL(n)
    ELSE <<n % LIMB, (n \div LIMB) % LIMB, LIMB - 1, LIMB - 1>>

\* a < b
ULLess[a \in ULong, b \in ULong] ==
    \E i \in Limbs : a[i] < b[i] /\ \A j \in Limbs : j > i => a[j] = b[j]

\* limb-wise partial values, before the carries
LimbSums == [Limbs -> Int]

\* the limbs of the number with the limb-wise partial values t, modulo 2^64
ULNorm[t \in LimbSums] ==
    LET c1 == t[1] \div LIMB
        c2 == (t[2] + c1) \div LIMB
        c3 == (t[3] + c2) \div LIMB
    IN  <<t[1] % LIMB, (t[2] + c1) % LIMB, (t[3] + c2) % LIMB, (t[4] + c3) % LIMB>>

\* a + b modulo 2^64
ULAdd[a \in ULong, b \in ULong] == ULNorm[[i \in Limbs |-> a[i] + b[i]]]

\* a - b modulo 2^64
ULSub[a \in ULong, b \in ULong] == ULNorm[[i \in Limbs |-> a[i] - b[i]]]

\* a << n modulo 2^64, for 0 <= n < 15
ULShl[a \in ULong, n \in 0..14] == ULNorm[[i \in Limbs |-> a[i] * (2^n)]]

\* bit i (0 = least significant) of a
ULBit[a \in ULong, i \in 0..63] == (a[(i \div 16) + 1] \div (2^(i % 16))) % 2

\* a % m by binary long division, most significant bit first; r < m throughout,
\* so 2r + bit >= m is decided as r + bit >= m - r without leaving 64 bits
ULModBits[a \in ULong, m \in ULong, i \in -1..63, r \in ULong] ==
    IF i < 0 THEN r
    ELSE LET rb == ULAdd[r, UL(ULBit[a, i])]
             d  == ULSub[m, r]
         IN  ULModBits[a, m, i - 1,
                       IF ULLess[rb, d] THEN ULAdd[r, rb] ELSE ULSub[rb, d]]

\* a % m for a modulus below 2^15, limb by limb from the most significant
ULModSmall[a \in ULong, m \in 1..32767] ==
    LET r4 == a[4] % m
        r3 == (r4 * LIMB + a[3]) % m
        r2 == (r3 * LIMB + a[2]) % m
    IN  (r2 * LIMB + a[1]) % m

\* a % m, m /= 0
ULMod[a \in ULong, m \in ULong] ==
    IF ULLess[a, m] THEN a
    ELSE IF m[2] = 0 /\ m[3] = 0 /\ m[4] = 0 /\ m[1] < 32768
         THEN UL(ULModSmall[a, m[1]])
         ELSE ULModBits[a, m, 63, UL(0)]

(***************************************************************************)
(* Keys are C strings: sequences of non-zero bytes.  Values are ints.      *)
(***************************************************************************)
CString == Seq(1..255)

KeyPool == << <<97>>, <<101>>, <<105>>, <<98>>, <<97, 98>>, <<99>> >>

Keys == {KeyPool[n] : n \in 1..NumKeys}
\* two values tell an overwrite from a call that stores nothing
Values == 1..2

NULL == 0

HM_SUCCESS == "HM_SUCCESS"
HM_ERR_MALLOC_FAILED == "HM_ERR_MALLOC_FAILED"
HM_ERR_KEY_NOT_FOUND == "HM_ERR_KEY_NOT_FOUND"
HM_ERR_INVALID_ARG == "HM_ERR_INVALID_ARG"
HM_ERR_REHASHING_FAILED == "HM_ERR_REHASHING_FAILED"
HM_ERR_SIZE_LIMIT == "HM_ERR_SIZE_LIMIT"

\* `int c = *string++` for a byte b of the key: char is signed in this build
CharToInt(b) == IF b >= 128 THEN b - 256 ELSE b

\* the while loop of hash: hash_val = ((hash_val << 5) + hash_val) + c
hash_loop[string \in CString, i \in Nat, hash_val \in ULong] ==
    IF i > Len(string) THEN hash_val
    ELSE hash_loop[string, i + 1,
                   ULAdd[ULAdd[ULShl[hash_val, 5], hash_val],
                         IntToUL(CharToInt(string[i]))]]

\* hash at the keys of the model, computed once
hash_of_key == [string \in Keys |-> hash_loop[string, 1, UL(5381)]]

hash(string) ==
    IF string \in Keys THEN hash_of_key[string]
    ELSE hash_loop[string, 1, UL(5381)]

\* hash(key) % (unsigned long)(size)
HASH_INDEX(key, size) == ULMod[hash(key), IntToUL(size)]

(***************************************************************************)
(* The state.  map is the caller's hashmap*: NULL or the address of the    *)
(* struct, whose fields [size, buckets, count] are hm (NoMap while map is  *)
(* NULL).  pairs is the heap of pair structs, a function from the          *)
(* allocated addresses to [key, value, next].  call and ret record the     *)
(* last call and what it returned (status; *value of get; the status of    *)
(* the resize a put called; what a put passed to perror).  abs is the      *)
(* finite map that the calls made so far denote.  rs is the frame of a     *)
(* resize that is being followed step by step: where it is (pc), its       *)
(* locals oldBuckets (the heads not yet fetched: old) and current, and the *)
(* struct and heap it was called on (pre_hm, pre_pairs).  order lists the  *)
(* pairs in the order their puts allocated them, oldest first, where a     *)
(* specification follows it (SpecOrder).  hrun is a call of hash on its    *)
(* own (SpecHash): the string passed and, once returned, the result.       *)
(***************************************************************************)
VARIABLES map, hm, pairs, call, ret, abs, rs, order, hrun

vars == <<map, hm, pairs, call, ret, abs, rs, order, hrun>>

Addr == 1..MaxPairs

MapAddr == 1

\* a bucket array of NULL heads, as calloc returns it
NoBuckets == [i \in {} |-> NULL]

\* the empty heap of pairs
NoPairs == [a \in {} |-> NULL]
NoMap == [size |-> 0, buckets |-> NoBuckets, count |-> 0]

\* no resize is being followed
NoResize == [pc |-> "idle", old |-> NoBuckets, current |-> NULL,
             pre_hm |-> NoMap, pre_pairs |-> NoPairs]

NotCalled == "not called"
NoError == "no error"
NoValue == 0
NoKey == <<>>

\* no call of hash on its own
NoHash == [pc |-> "idle", string |-> NoKey, result |-> UL(0)]

\* the sizes c_hashmap is called with: two invalid ones, small ones, and
\* 2^30, the least size whose double is not an int
BigSize == 2^30
CreateSizes == {-1, 0, 2, 4, BigSize}

\* which allocation of a put fails, and of a resize called directly
PutFailures == {"none", "malloc pair", "malloc key", "calloc"}
ResizeFailures == {"none", "calloc"}

\* buckets[index], the array being sparse
BucketHead(buckets, index) ==
    IF index \in DOMAIN buckets THEN buckets[index] ELSE NULL

\* buckets[index] = p
SetBucket(buckets, index, p) ==
    IF p = NULL
    THEN [i \in DOMAIN buckets \ {index} |-> buckets[i]]
    ELSE [i \in DOMAIN buckets \cup {index} |->
              IF i = index THEN p ELSE buckets[i]]

\* the number of slots of the array calloc returned for a map of this size:
\* the size_t whose conversion to int is size
BucketCount(size) ==
    IF size >= 0 THEN UL(size)
    ELSE <<size % LIMB, (size \div LIMB) % LIMB, 0, 0>>

\* the index of key lies inside the bucket array
InBounds(key, size) == ULLess[HASH_INDEX(key, size), BucketCount(size)]

\* malloc(sizeof(pair)) for the pair of key: a free address.  Which one is the
\* allocator's choice and no code compares addresses, so the model takes the
\* address numbered like the key when it is free, the least free one otherwise.
malloc(ps, key) ==
    LET free == Addr \ DOMAIN ps
        own == {a \in free : KeyPool[a] = key}
    IN  CHOOSE a \in free :
            IF own # {} THEN a \in own ELSE \A b \in free : a <= b

\* LOAD_FACTOR(map) > MAX_FACTOR, i.e. (float) count / size > 0.75.  The
\* float arithmetic is exact for the counts and sizes of this model (count
\* below 2^23; size below 2^23, a power of two, or negative), where it is
\* 4 * count > 3 * size for a positive size and false for a negative one.
LOAD_FACTOR_exceeds(m) ==
    /\ m.size > 0
    /\ m.size <= (4 * m.count - 1) \div 3

\* c_hashmap testing `size < 0` for `size <= 0`
c_hashmap_accepts_zero(size, mallocOk, callocOk) ==
    IF size < 0 THEN [map |-> NULL, hm |-> NoMap, perror |-> NoError]
    ELSE IF ~mallocOk THEN [map |-> NULL, hm |-> NoMap, perror |-> "hashmap"]
    ELSE IF ~callocOk
    THEN [map |-> NULL, hm |-> NoMap, perror |-> "hashmap buckets"]
    ELSE [map |-> MapAddr,
          hm |-> [size |-> size, buckets |-> NoBuckets, count |-> 0],
          perror |-> NoError]

\* perror is what the call passes to perror: an allocation that failed (the
\* size error goes to fprintf)
c_hashmap(size, mallocOk, callocOk) ==
    IF size <= 0 THEN [map |-> NULL, hm |-> NoMap, perror |-> NoError]
    ELSE IF ~mallocOk THEN [map |-> NULL, hm |-> NoMap, perror |-> "hashmap"]
    ELSE IF ~callocOk
    THEN [map |-> NULL, hm |-> NoMap, perror |-> "hashmap buckets"]
    ELSE [map |-> MapAddr,
          hm |-> [size |-> size, buckets |-> NoBuckets, count |-> 0],
          perror |-> NoError]

\* walk with `if` for `while`: only the head of the chain is compared
walk_head_only(ps, prev, current, key) ==
    IF current = NULL THEN [prev |-> prev, current |-> NULL]
    ELSE IF ps[current].key = key THEN [prev |-> prev, current |-> current]
    ELSE [prev |-> current, current |-> NULL]

\* the chain walk `while (current) { if (strcmp(...) == 0) ...; current = current->next; }`:
\* the first pair with the key from current on, and the pair before it
RECURSIVE walk(_, _, _, _)
walk(ps, prev, current, key) ==
    IF current = NULL THEN [prev |-> prev, current |-> NULL]
    ELSE IF ps[current].key = key THEN [prev |-> prev, current |-> current]
    ELSE walk(ps, current, ps[current].next, key)

get(mp, m, ps, key) ==
    IF mp = NULL
    THEN [status |-> HM_ERR_INVALID_ARG, value |-> NoValue]
    ELSE LET index == HASH_INDEX(key, m.size)
             current == walk(ps, NULL, BucketHead(m.buckets, index), key).current
         IN  IF current # NULL
             THEN [status |-> HM_SUCCESS, value |-> ps[current].value]
             ELSE [status |-> HM_ERR_KEY_NOT_FOUND, value |-> NoValue]

\* delete_key without `map->count--`
delete_key_keeps_count(mp, m, ps, key) ==
    IF mp = NULL
    THEN [hm |-> m, pairs |-> ps, status |-> HM_ERR_INVALID_ARG]
    ELSE LET index == HASH_INDEX(key, m.size)
             w == walk(ps, NULL, BucketHead(m.buckets, index), key)
             current == w.current
             prev == w.prev
             unlinked == IF prev # NULL
                         THEN [ps EXCEPT ![prev].next = ps[current].next]
                         ELSE ps
             buckets == IF prev # NULL
                        THEN m.buckets
                        ELSE SetBucket(m.buckets, index, ps[current].next)
         IN  IF current # NULL
             THEN [hm |-> [m EXCEPT !.buckets = buckets],
                   pairs |-> [a \in DOMAIN ps \ {current} |-> unlinked[a]],
                   status |-> HM_SUCCESS]
             ELSE [hm |-> m, pairs |-> ps, status |-> HM_ERR_KEY_NOT_FOUND]

\* delete_key with `map->count--` after the loop, where a miss arrives
delete_key_counts_miss(mp, m, ps, key) ==
    IF mp = NULL
    THEN [hm |-> m, pairs |-> ps, status |-> HM_ERR_INVALID_ARG]
    ELSE LET index == HASH_INDEX(key, m.size)
             w == walk(ps, NULL, BucketHead(m.buckets, index), key)
             current == w.current
             prev == w.prev
             unlinked == IF prev # NULL
                         THEN [ps EXCEPT ![prev].next = ps[current].next]
                         ELSE ps
             buckets == IF prev # NULL
                        THEN m.buckets
                        ELSE SetBucket(m.buckets, index, ps[current].next)
         IN  IF current # NULL
             THEN [hm |-> [m EXCEPT !.buckets = buckets, !.count = @ - 1],
                   pairs |-> [a \in DOMAIN ps \ {current} |-> unlinked[a]],
                   status |-> HM_SUCCESS]
             ELSE [hm |-> [m EXCEPT !.count = @ - 1], pairs |-> ps,
                   status |-> HM_ERR_KEY_NOT_FOUND]

delete_key(mp, m, ps, key) ==
    IF mp = NULL
    THEN [hm |-> m, pairs |-> ps, status |-> HM_ERR_INVALID_ARG]
    ELSE LET index == HASH_INDEX(key, m.size)
             w == walk(ps, NULL, BucketHead(m.buckets, index), key)
             current == w.current
             prev == w.prev
             unlinked == IF prev # NULL
                         THEN [ps EXCEPT ![prev].next = ps[current].next]
                         ELSE ps
             buckets == IF prev # NULL
                        THEN m.buckets
                        ELSE SetBucket(m.buckets, index, ps[current].next)
         IN  IF current # NULL
             THEN [hm |-> [m EXCEPT !.buckets = buckets, !.count = @ - 1],
                   pairs |-> [a \in DOMAIN ps \ {current} |-> unlinked[a]],
                   status |-> HM_SUCCESS]
             ELSE [hm |-> m, pairs |-> ps, status |-> HM_ERR_KEY_NOT_FOUND]

\* __builtin_mul_overflow(map->size, 2, &newSize): the product of the two
\* ints, taken exactly, is not a value of size_t (64 bits, unsigned); twice
\* an int lies in -2^32 .. 2^32 - 2
mul_overflow(size) == size < 0

\* newSize, the size_t holding 2 * size, for size >= 0
newSize(size) == ULShl[IntToUL(size), 1]

\* `map->size = newSize`: the conversion size_t -> int keeps the low 32 bits
SizeTToInt(u) == (IF u[2] >= 32768 THEN u[2] - LIMB ELSE u[2]) * LIMB + u[1]

\* the least index of a non-empty set of indices
MinIndex(S) == CHOOSE i \in S : \A j \in S : j = i \/ ULLess[i, j]

\* rehash_step computing newIndex with the old size
rehash_step_old_size(st) ==
    IF st.current = NULL
    THEN LET i == MinIndex(DOMAIN st.old)
         IN  [st EXCEPT !.current = st.old[i],
                        !.old = SetBucket(st.old, i, NULL)]
    ELSE LET temp == st.current
             newIndex == HASH_INDEX(st.pairs[temp].key, st.hm.size \div 2)
         IN  [st EXCEPT !.current = st.pairs[temp].next,
                        !.pairs[temp].next = BucketHead(st.hm.buckets, newIndex),
                        !.hm.buckets = SetBucket(st.hm.buckets, newIndex, temp),
                        !.hm.count = st.hm.count + 1]

\* rehash_step with `temp->next = NULL` for `temp->next = map->buckets[newIndex]`
rehash_step_cuts_chain(st) ==
    IF st.current = NULL
    THEN LET i == MinIndex(DOMAIN st.old)
         IN  [st EXCEPT !.current = st.old[i],
                        !.old = SetBucket(st.old, i, NULL)]
    ELSE LET temp == st.current
             newIndex == HASH_INDEX(st.pairs[temp].key, st.hm.size)
         IN  [st EXCEPT !.current = st.pairs[temp].next,
                        !.pairs[temp].next = NULL,
                        !.hm.buckets = SetBucket(st.hm.buckets, newIndex, temp),
                        !.hm.count = st.hm.count + 1]

\* rehash_step without `map->count++`
rehash_step_keeps_count(st) ==
    IF st.current = NULL
    THEN LET i == MinIndex(DOMAIN st.old)
         IN  [st EXCEPT !.current = st.old[i],
                        !.old = SetBucket(st.old, i, NULL)]
    ELSE LET temp == st.current
             newIndex == HASH_INDEX(st.pairs[temp].key, st.hm.size)
         IN  [st EXCEPT !.current = st.pairs[temp].next,
                        !.pairs[temp].next = BucketHead(st.hm.buckets, newIndex),
                        !.hm.buckets = SetBucket(st.hm.buckets, newIndex, temp)]

\* One turn of the loops of resize on st = [old, current, hm, pairs]: old is
\* oldBuckets from index i on, current the loop variable of the inner loop.
\* With current NULL the for loop moves to the next non-empty old bucket;
\* otherwise the body of the while loop relinks the pair current.
rehash_step(st) ==
    IF st.current = NULL
    THEN LET i == MinIndex(DOMAIN st.old)
         IN  [st EXCEPT !.current = st.old[i],
                        !.old = SetBucket(st.old, i, NULL)]
    ELSE LET temp == st.current
             newIndex == HASH_INDEX(st.pairs[temp].key, st.hm.size)
         IN  [st EXCEPT !.current = st.pairs[temp].next,
                        !.pairs[temp].next = BucketHead(st.hm.buckets, newIndex),
                        !.hm.buckets = SetBucket(st.hm.buckets, newIndex, temp),
                        !.hm.count = st.hm.count + 1]

\* the loops run to their end (st is evaluated once per turn)
RECURSIVE rehash(_)
rehash(st) ==
    CHOOSE r \in { IF s.current = NULL /\ DOMAIN s.old = {}
                   THEN s
                   ELSE rehash(rehash_step(s)) : s \in {st} } : TRUE

\* resize storing the new size before it tests what calloc returned
resize_sets_size_early(mp, m, ps, callocOk) ==
    IF mp = NULL
    THEN [hm |-> m, pairs |-> ps, status |-> HM_ERR_INVALID_ARG]
    ELSE IF mul_overflow(m.size)
    THEN [hm |-> m, pairs |-> ps, status |-> HM_ERR_SIZE_LIMIT]
    ELSE IF ~callocOk
    THEN [hm |-> [m EXCEPT !.size = SizeTToInt(newSize(m.size))],
          pairs |-> ps, status |-> HM_ERR_MALLOC_FAILED]
    ELSE LET st == rehash([old |-> m.buckets,
                           current |-> NULL,
                           hm |-> [size |-> SizeTToInt(newSize(m.size)),
                                   buckets |-> NoBuckets,
                                   count |-> 0],
                           pairs |-> ps])
         IN  [hm |-> st.hm, pairs |-> st.pairs, status |-> HM_SUCCESS]

resize(mp, m, ps, callocOk) ==
    IF mp = NULL
    THEN [hm |-> m, pairs |-> ps, status |-> HM_ERR_INVALID_ARG]
    ELSE IF mul_overflow(m.size)
    THEN [hm |-> m, pairs |-> ps, status |-> HM_ERR_SIZE_LIMIT]
    ELSE IF ~callocOk
    THEN [hm |-> m, pairs |-> ps, status |-> HM_ERR_MALLOC_FAILED]
    ELSE LET st == rehash([old |-> m.buckets,
                           current |-> NULL,
                           hm |-> [size |-> SizeTToInt(newSize(m.size)),
                                   buckets |-> NoBuckets,
                                   count |-> 0],
                           pairs |-> ps])
         IN  [hm |-> st.hm, pairs |-> st.pairs, status |-> HM_SUCCESS]

\* put_update with `map->count++` ahead of the lookup
put_update_counts(m, ps, current, value) ==
    [hm |-> [m EXCEPT !.count = m.count + 1],
     pairs |-> [ps EXCEPT ![current].value = value],
     status |-> HM_SUCCESS, resize |-> NotCalled, perror |-> NoError]

\* put found the key in the pair current: `current->value = value; return HM_SUCCESS;`
put_update(m, ps, current, value) ==
    [hm |-> m, pairs |-> [ps EXCEPT ![current].value = value],
     status |-> HM_SUCCESS, resize |-> NotCalled, perror |-> NoError]

\* put_insert with `map->count++` ahead of the malloc of the key
put_insert_counts_early(mp, m, ps, index, key, value, fails) ==
    IF fails = "malloc pair" \/ Addr \ DOMAIN ps = {}
    THEN [hm |-> m, pairs |-> ps, status |-> HM_ERR_MALLOC_FAILED,
          resize |-> NotCalled, perror |-> "new pair"]
    ELSE IF fails = "malloc key"
    THEN [hm |-> [m EXCEPT !.count = m.count + 1], pairs |-> ps,
          status |-> HM_ERR_MALLOC_FAILED,
          resize |-> NotCalled, perror |-> "key string"]
    ELSE LET new_pair == malloc(ps, key)
             ps1 == [a \in DOMAIN ps \cup {new_pair} |->
                        IF a = new_pair
                        THEN [key |-> key, value |-> value,
                              next |-> BucketHead(m.buckets, index)]
                        ELSE ps[a]]
             m1 == [m EXCEPT !.buckets = SetBucket(m.buckets, index, new_pair),
                             !.count = m.count + 1]
             r == resize(mp, m1, ps1, fails # "calloc")
         IN  IF LOAD_FACTOR_exceeds(m1)
             THEN [hm |-> r.hm, pairs |-> r.pairs,
                   status |-> IF r.status # HM_SUCCESS
                              THEN HM_ERR_REHASHING_FAILED
                              ELSE HM_SUCCESS,
                   resize |-> r.status, perror |-> NoError]
             ELSE [hm |-> m1, pairs |-> ps1, status |-> HM_SUCCESS,
                   resize |-> NotCalled, perror |-> NoError]

\* put_insert linking the new pair behind the head of a chain that has one
put_insert_behind_head(mp, m, ps, index, key, value, fails) ==
    IF fails = "malloc pair" \/ Addr \ DOMAIN ps = {}
    THEN [hm |-> m, pairs |-> ps, status |-> HM_ERR_MALLOC_FAILED,
          resize |-> NotCalled, perror |-> "new pair"]
    ELSE IF fails = "malloc key"
    THEN [hm |-> m, pairs |-> ps, status |-> HM_ERR_MALLOC_FAILED,
          resize |-> NotCalled, perror |-> "key string"]
    ELSE LET new_pair == malloc(ps, key)
             head == BucketHead(m.buckets, index)
             ps1 == [a \in DOMAIN ps \cup {new_pair} |->
                        IF a = new_pair
                        THEN [key |-> key, value |-> value,
                              next |-> IF head = NULL THEN NULL
                                       ELSE ps[head].next]
                        ELSE IF a = head
                        THEN [ps[a] EXCEPT !.next = new_pair]
                        ELSE ps[a]]
             m1 == [m EXCEPT !.buckets = IF head = NULL
                                         THEN SetBucket(m.buckets, index, new_pair)
                                         ELSE m.buckets,
                             !.count = m.count + 1]
             r == resize(mp, m1, ps1, fails # "calloc")
         IN  IF LOAD_FACTOR_exceeds(m1)
             THEN [hm |-> r.hm, pairs |-> r.pairs,
                   status |-> IF r.status # HM_SUCCESS
                              THEN HM_ERR_REHASHING_FAILED
                              ELSE HM_SUCCESS,
                   resize |-> r.status, perror |-> NoError]
             ELSE [hm |-> m1, pairs |-> ps1, status |-> HM_SUCCESS,
                   resize |-> NotCalled, perror |-> NoError]

\* put found no pair with the key in bucket index: the new pair.  fails names
\* the allocation of this call that fails, if one does: the malloc of the
\* pair, the malloc of its key, or the calloc of resize (after a failure no
\* later allocation is attempted).  A heap of MaxPairs pairs is full.  perror
\* is what the call passes to perror.
put_insert(mp, m, ps, index, key, value, fails) ==
    IF fails = "malloc pair" \/ Addr \ DOMAIN ps = {}
    THEN [hm |-> m, pairs |-> ps, status |-> HM_ERR_MALLOC_FAILED,
          resize |-> NotCalled, perror |-> "new pair"]
    ELSE IF fails = "malloc key"
    THEN [hm |-> m, pairs |-> ps, status |-> HM_ERR_MALLOC_FAILED,
          resize |-> NotCalled, perror |-> "key string"]
    ELSE LET new_pair == malloc(ps, key)
             ps1 == [a \in DOMAIN ps \cup {new_pair} |->
                        IF a = new_pair
                        THEN [key |-> key, value |-> value,
                              next |-> BucketHead(m.buckets, index)]
                        ELSE ps[a]]
             m1 == [m EXCEPT !.buckets = SetBucket(m.buckets, index, new_pair),
                             !.count = m.count + 1]
             r == resize(mp, m1, ps1, fails # "calloc")
         IN  IF LOAD_FACTOR_exceeds(m1)
             THEN [hm |-> r.hm, pairs |-> r.pairs,
                   status |-> IF r.status # HM_SUCCESS
                              THEN HM_ERR_REHASHING_FAILED
                              ELSE HM_SUCCESS,
                   resize |-> r.status, perror |-> NoError]
             ELSE [hm |-> m1, pairs |-> ps1, status |-> HM_SUCCESS,
                   resize |-> NotCalled, perror |-> NoError]

\* put without the walk of the chain: every call inserts
put_always_inserts(mp, m, ps, key, value, fails) ==
    IF mp = NULL
    THEN [hm |-> m, pairs |-> ps, status |-> HM_ERR_INVALID_ARG,
          resize |-> NotCalled, perror |-> NoError]
    ELSE put_insert(mp, m, ps, HASH_INDEX(key, m.size), key, value, fails)

put(mp, m, ps, key, value, fails) ==
    IF mp = NULL
    THEN [hm |-> m, pairs |-> ps, status |-> HM_ERR_INVALID_ARG,
          resize |-> NotCalled, perror |-> NoError]
    ELSE LET index == HASH_INDEX(key, m.size)
             current == walk(ps, NULL, BucketHead(m.buckets, index), key).current
         IN  IF current # NULL
             THEN put_update(m, ps, current, value)
             ELSE put_insert(mp, m, ps, index, key, value, fails)

(***************************************************************************)
(* What a walk of the table sees.                                          *)
(***************************************************************************)
\* the pairs met from p on by following next (at most fuel of them)
RECURSIVE chain_from(_, _, _)
chain_from(ps, p, fuel) ==
    IF p = NULL \/ fuel = 0 THEN <<>>
    ELSE IF p \notin DOMAIN ps THEN <<p>>
    ELSE <<p>> \o chain_from(ps, ps[p].next, fuel - 1)

\* the chain of bucket i, head first
Chain(m, ps, i) == chain_from(ps, BucketHead(m.buckets, i), MaxPairs + 1)

\* the places (bucket, position) a walk of every chain visits
Places(m, ps) ==
    UNION {{<<i, n>> : n \in 1..Len(Chain(m, ps, i))} : i \in DOMAIN m.buckets}

\* the pair at a place
PairAt(m, ps, pl) == Chain(m, ps, pl[1])[pl[2]]

\* the pairs linked into the table
Linked(m, ps) == {PairAt(m, ps, pl) : pl \in Places(m, ps)}

\* the (key, value) contents of the table
Contents(m, ps) == {<<ps[a].key, ps[a].value>> : a \in Linked(m, ps)}

(***************************************************************************)
(* contains_key and clear are declared in the header (lines 53-54, under   *)
(* "TODO") and defined nowhere in the source; they are modelled from       *)
(* sections 4.6 and 6 of the specification.                                *)
(***************************************************************************)
\* a lookup without the value: the chain walk of get; a NULL map gives false
contains_key(mp, m, ps, key) ==
    IF mp = NULL THEN FALSE
    ELSE walk(ps, NULL, BucketHead(m.buckets, HASH_INDEX(key, m.size)), key).current
             # NULL

\* clear leaving count as it was
clear_keeps_count(mp, m, ps) ==
    IF mp = NULL
    THEN [hm |-> m, pairs |-> ps, status |-> HM_ERR_INVALID_ARG, freed |-> 0]
    ELSE [hm |-> [m EXCEPT !.buckets = NoBuckets],
          pairs |-> [a \in DOMAIN ps \ Linked(m, ps) |-> ps[a]],
          status |-> HM_SUCCESS,
          freed |-> Cardinality(Linked(m, ps))]

\* every pair of every chain is freed, every head set to NULL, count to 0;
\* size stays.  freed is the number of pairs freed.
clear(mp, m, ps) ==
    IF mp = NULL
    THEN [hm |-> m, pairs |-> ps, status |-> HM_ERR_INVALID_ARG, freed |-> 0]
    ELSE [hm |-> [m EXCEPT !.buckets = NoBuckets, !.count = 0],
          pairs |-> [a \in DOMAIN ps \ Linked(m, ps) |-> ps[a]],
          status |-> HM_SUCCESS,
          freed |-> Cardinality(Linked(m, ps))]

(***************************************************************************)
(* The calls.  Each action is one call of the public interface, from its   *)
(* entry to its return.  A key is passed only where its bucket index lies  *)
(* inside the bucket array (elsewhere the access is undefined).            *)
(***************************************************************************)
Init ==
    /\ map = NULL
    /\ hm = NoMap
    /\ pairs = NoPairs
    /\ call = [name |-> "none", key |-> NoKey, value |-> NoValue]
    /\ ret = [status |-> NotCalled, value |-> NoValue, resize |-> NotCalled,
              perror |-> NoError]
    /\ abs = [k \in {} |-> NoValue]
    /\ rs = NoResize
    /\ order = <<>>
    /\ hrun = NoHash

Create(size, mallocOk, callocOk) ==
    /\ map = NULL
    /\ LET r == c_hashmap(size, mallocOk, callocOk)
       IN  /\ map' = r.map
           /\ hm' = r.hm
           /\ ret' = [status |-> IF r.map = NULL THEN "NULL" ELSE "hashmap",
                      value |-> NoValue, resize |-> NotCalled,
                      perror |-> r.perror]
    /\ call' = [name |-> "c_hashmap", key |-> NoKey, value |-> size]
    /\ UNCHANGED <<pairs, abs, rs>>

Put(key, value, fails) ==
    /\ map # NULL => InBounds(key, hm.size)
    /\ LET r == put(map, hm, pairs, key, value, fails)
       IN  /\ hm' = r.hm
           /\ pairs' = r.pairs
           /\ ret' = [status |-> r.status, value |-> NoValue,
                      resize |-> r.resize, perror |-> r.perror]
           /\ abs' = IF r.status \in {HM_ERR_INVALID_ARG, HM_ERR_MALLOC_FAILED}
                     THEN abs
                     ELSE [k \in DOMAIN abs \cup {key} |->
                              IF k = key THEN value ELSE abs[k]]
    /\ call' = [name |-> "put", key |-> key, value |-> value]
    /\ UNCHANGED <<map, rs>>

Get(key) ==
    /\ map # NULL => InBounds(key, hm.size)
    /\ LET r == get(map, hm, pairs, key)
       IN  ret' = [status |-> r.status, value |-> r.value, resize |-> NotCalled,
                   perror |-> NoError]
    /\ call' = [name |-> "get", key |-> key, value |-> NoValue]
    /\ UNCHANGED <<map, hm, pairs, abs, rs>>

DeleteKey(key) ==
    /\ map # NULL => InBounds(key, hm.size)
    /\ LET r == delete_key(map, hm, pairs, key)
       IN  /\ hm' = r.hm
           /\ pairs' = r.pairs
           /\ ret' = [status |-> r.status, value |-> NoValue, resize |-> NotCalled,
                      perror |-> NoError]
           /\ abs' = IF r.status = HM_ERR_INVALID_ARG
                     THEN abs
                     ELSE [k \in DOMAIN abs \ {key} |-> abs[k]]
    /\ call' = [name |-> "delete_key", key |-> key, value |-> NoValue]
    /\ UNCHANGED <<map, rs>>

\* a direct call of resize; the caller grows a small table no further than
\* MaxDirectSize buckets
Resize(fails) ==
    /\ hm.size < MaxDirectSize \/ hm.size >= BigSize
    /\ LET r == resize(map, hm, pairs, fails # "calloc")
       IN  /\ hm' = r.hm
           /\ pairs' = r.pairs
           /\ ret' = [status |-> r.status, value |-> NoValue, resize |-> NotCalled,
                      perror |-> NoError]
    /\ call' = [name |-> "resize", key |-> NoKey, value |-> NoValue]
    /\ UNCHANGED <<map, abs, rs>>

\* the boolean contains_key returns is recorded as "true" or "false"
ContainsKey(key) ==
    /\ map # NULL => InBounds(key, hm.size)
    /\ ret' = [status |-> IF contains_key(map, hm, pairs, key)
                          THEN "true" ELSE "false",
               value |-> NoValue, resize |-> NotCalled, perror |-> NoError]
    /\ call' = [name |-> "contains_key", key |-> key, value |-> NoValue]
    /\ UNCHANGED <<map, hm, pairs, abs, rs>>

\* ret.value records how many pairs the call freed
Clear ==
    /\ LET r == clear(map, hm, pairs)
       IN  /\ hm' = r.hm
           /\ pairs' = r.pairs
           /\ ret' = [status |-> r.status, value |-> r.freed,
                      resize |-> NotCalled, perror |-> NoError]
           /\ abs' = IF r.status = HM_SUCCESS
                     THEN [k \in {} |-> NoValue]
                     ELSE abs
    /\ call' = [name |-> "clear", key |-> NoKey, value |-> NoValue]
    /\ UNCHANGED <<map, rs>>

Next ==
    \/ \E size \in CreateSizes, mallocOk, callocOk \in BOOLEAN :
           Create(size, mallocOk, callocOk) /\ UNCHANGED <<order, hrun>>
    \/ \E key \in Keys, value \in Values, fails \in PutFailures :
           Put(key, value, fails) /\ UNCHANGED <<order, hrun>>
    \/ \E key \in Keys : Get(key) /\ UNCHANGED <<order, hrun>>
    \/ \E key \in Keys : DeleteKey(key) /\ UNCHANGED <<order, hrun>>
    \/ \E fails \in ResizeFailures : Resize(fails) /\ UNCHANGED <<order, hrun>>
    \/ \E key \in Keys : ContainsKey(key) /\ UNCHANGED <<order, hrun>>
    \/ Clear /\ UNCHANGED <<order, hrun>>

Spec == Init /\ [][Next]_vars

(***************************************************************************)
(* resize followed step by step: its entry up to the swap of the bucket    *)
(* array, one turn of its loops at a time, and its return.  No other call  *)
(* runs while a resize does (the table has one owner and one thread).      *)
(***************************************************************************)
\* the loops of resize have run to their end
LoopDone == rs.current = NULL /\ DOMAIN rs.old = {}

\* lines 460-489: the checks, the calloc, and the swap; a failed check returns
ResizeBegin(fails) ==
    /\ rs.pc = "idle"
    /\ hm.size < MaxDirectSize \/ hm.size >= BigSize
    /\ IF map = NULL \/ mul_overflow(hm.size) \/ fails = "calloc"
       THEN /\ ret' = [status |-> resize(map, hm, pairs, fails # "calloc").status,
                       value |-> NoValue, resize |-> NotCalled,
                       perror |-> NoError]
            /\ UNCHANGED <<hm, rs>>
       ELSE /\ ret' = [status |-> NotCalled, value |-> NoValue,
                       resize |-> NotCalled, perror |-> NoError]
            /\ hm' = [size |-> SizeTToInt(newSize(hm.size)),
                      buckets |-> NoBuckets,
                      count |-> 0]
            /\ rs' = [pc |-> "loop", old |-> hm.buckets, current |-> NULL,
                      pre_hm |-> hm, pre_pairs |-> pairs]
    /\ call' = [name |-> "resize", key |-> NoKey, value |-> NoValue]
    /\ UNCHANGED <<map, pairs, abs>>

\* lines 492-508, one turn
RehashStep ==
    /\ rs.pc = "loop"
    /\ ~LoopDone
    /\ LET st == rehash_step([old |-> rs.old, current |-> rs.current,
                              hm |-> hm, pairs |-> pairs])
       IN  /\ hm' = st.hm
           /\ pairs' = st.pairs
           /\ rs' = [rs EXCEPT !.old = st.old, !.current = st.current]
    /\ UNCHANGED <<map, call, ret, abs>>

\* lines 510-513: free(oldBuckets) and the return
ResizeEnd ==
    /\ rs.pc = "loop"
    /\ LoopDone
    /\ ret' = [ret EXCEPT !.status = HM_SUCCESS]
    /\ rs' = NoResize
    /\ UNCHANGED <<map, hm, pairs, call, abs>>

NextRehash ==
    \/ \E size \in CreateSizes, mallocOk, callocOk \in BOOLEAN :
           rs.pc = "idle" /\ Create(size, mallocOk, callocOk) /\ UNCHANGED <<order, hrun>>
    \/ \E key \in Keys, value \in Values, fails \in PutFailures :
           rs.pc = "idle" /\ Put(key, value, fails) /\ UNCHANGED <<order, hrun>>
    \/ \E key \in Keys : rs.pc = "idle" /\ DeleteKey(key) /\ UNCHANGED <<order, hrun>>
    \/ \E fails \in ResizeFailures : ResizeBegin(fails) /\ UNCHANGED <<order, hrun>>
    \/ RehashStep /\ UNCHANGED <<order, hrun>>
    \/ ResizeEnd /\ UNCHANGED <<order, hrun>>

SpecRehash == Init /\ [][NextRehash]_vars

(***************************************************************************)
(* The calls with the order of insertion followed: a pair a put allocates  *)
(* is the newest, a pair freed leaves the order.                           *)
(***************************************************************************)
\* order without the pairs freed, then the pair allocated
Inserted(ord, ps, ps2) ==
    LET kept == SelectSeq(ord, LAMBDA a : a \in DOMAIN ps2)
        new == DOMAIN ps2 \ DOMAIN ps
    IN  IF new = {} THEN kept ELSE Append(kept, CHOOSE a \in new : TRUE)

\* the order follows the call; no call of hash on its own
Ordered == order' = Inserted(order, pairs, pairs') /\ UNCHANGED hrun

\* the order of the chains depends on no value and no failed malloc: one
\* value, and of the allocations only the calloc of resize fails
OrderValues == {1}
OrderFailures == {"none", "calloc"}

NextOrder ==
    \/ \E size \in CreateSizes, mallocOk, callocOk \in BOOLEAN :
           Create(size, mallocOk, callocOk) /\ Ordered
    \/ \E key \in Keys, value \in OrderValues, fails \in OrderFailures :
           Put(key, value, fails) /\ Ordered
    \/ \E key \in Keys : DeleteKey(key) /\ Ordered
    \/ \E fails \in ResizeFailures :
           Resize(fails) /\ Ordered
    \/ Clear /\ Ordered

SpecOrder == Init /\ [][NextOrder]_vars

(***************************************************************************)
(* The calls with no resize failing: the calloc of resize succeeds, and    *)
(* resize is not called directly on a size it refuses.                     *)
(***************************************************************************)
PutFailuresNoResize == {"none", "malloc pair", "malloc key"}

NextLoad ==
    \/ \E size \in CreateSizes, mallocOk, callocOk \in BOOLEAN :
           Create(size, mallocOk, callocOk) /\ UNCHANGED <<order, hrun>>
    \/ \E key \in Keys, value \in Values, fails \in PutFailuresNoResize :
           Put(key, value, fails) /\ UNCHANGED <<order, hrun>>
    \/ \E key \in Keys : DeleteKey(key) /\ UNCHANGED <<order, hrun>>
    \/ /\ map # NULL
       /\ ~mul_overflow(hm.size)
       /\ Resize("none")
       /\ UNCHANGED <<order, hrun>>

SpecLoad == Init /\ [][NextLoad]_vars

(***************************************************************************)
(* hash on its own: called with a string, it returns.                      *)
(***************************************************************************)
\* bytes of the strings hash is called with: the least, a letter, the
\* greatest non-negative char, the least and the greatest byte above it
HashBytes == {1, 97, 127, 128, 255}

\* the strings over HashBytes of a length
RECURSIVE StringsOfLen(_)
StringsOfLen(n) ==
    IF n = 0 THEN {<<>>}
    ELSE {Append(string, b) : string \in StringsOfLen(n - 1), b \in HashBytes}

\* strings long enough for hash_val to pass 2^64
LongStrings == {[n \in 1..LongLen |-> b] : b \in {122, 255}}

HashInputs == UNION {StringsOfLen(n) : n \in 0..MaxHashLen} \cup LongStrings

InitHash ==
    /\ map = NULL
    /\ hm = NoMap
    /\ pairs = NoPairs
    /\ call = [name |-> "none", key |-> NoKey, value |-> NoValue]
    /\ ret = [status |-> NotCalled, value |-> NoValue, resize |-> NotCalled,
              perror |-> NoError]
    /\ abs = [k \in {} |-> NoValue]
    /\ rs = NoResize
    /\ order = <<>>
    /\ \E string \in HashInputs :
           hrun = [pc |-> "called", string |-> string, result |-> UL(0)]

Hash ==
    /\ hrun.pc = "called"
    /\ hrun' = [hrun EXCEPT !.pc = "returned", !.result = hash(hrun.string)]
    /\ UNCHANGED <<map, hm, pairs, call, ret, abs, rs, order>>

NextHash == Hash

SpecHash == InitHash /\ [][NextHash]_vars

\* C1: the table is the finite map abs: get finds exactly the keys put and not
\* deleted since, each with the value of its last put, whatever resizes the
\* puts triggered.
C1_FiniteMap ==
    map # NULL =>
        \A k \in Keys :
            get(map, hm, pairs, k) =
                IF k \in DOMAIN abs
                THEN [status |-> HM_SUCCESS, value |-> abs[k]]
                ELSE [status |-> HM_ERR_KEY_NOT_FOUND, value |-> NoValue]

\* a key was deleted from a table that puts have resized, others remain
C1_Witness ==
    /\ call.name = "delete_key"
    /\ ret.status = HM_SUCCESS
    /\ hm.size = 8
    /\ Cardinality(DOMAIN abs) = 3
    /\ \E k \in DOMAIN abs : abs[k] = 2

\* C2: count is the number of entries a walk of all chains visits, after
\* every call, failed or not.
C2_CountExact ==
    map # NULL => hm.count = Cardinality(Places(hm, pairs))

\* a put whose resize failed left three entries
C2_Witness ==
    /\ call.name = "put"
    /\ ret.status = HM_ERR_REHASHING_FAILED
    /\ hm.count = 3

\* C3: every linked entry is in the chain of the bucket HASH_INDEX gives for
\* its key and the current size.
C3_IndexInvariant ==
    map # NULL =>
        \A pl \in Places(hm, pairs) :
            HASH_INDEX(pairs[PairAt(hm, pairs, pl)].key, hm.size) = pl[1]

\* a put resized a table of four entries
C3_Witness ==
    /\ call.name = "put"
    /\ ret.resize = HM_SUCCESS
    /\ hm.count = 4

\* C4: a put of a key already present returns HM_SUCCESS without calling
\* resize, stores the value in that key's entry, and changes nothing else:
\* size, count, the bucket heads, every next pointer, every key and every
\* other value stay, and no pair is allocated or freed.
C4_UpdateInPlace ==
    [][(/\ call'.name = "put"
        /\ map # NULL
        /\ get(map, hm, pairs, call'.key).status = HM_SUCCESS)
       => /\ ret'.status = HM_SUCCESS
          /\ ret'.resize = NotCalled
          /\ hm' = hm
          /\ DOMAIN pairs' = DOMAIN pairs
          /\ \A a \in DOMAIN pairs :
                 /\ pairs'[a].key = pairs[a].key
                 /\ pairs'[a].next = pairs[a].next
                 /\ pairs'[a].value = IF pairs[a].key = call'.key
                                      THEN call'.value
                                      ELSE pairs[a].value
          /\ get(map', hm', pairs', call'.key) =
                 [status |-> HM_SUCCESS, value |-> call'.value]]_vars

\* a put returned HM_SUCCESS without calling resize on a table over the load
\* threshold: it was an update (an insertion there calls resize)
C4_Witness ==
    /\ call.name = "put"
    /\ ret.status = HM_SUCCESS
    /\ ret.resize = NotCalled
    /\ LOAD_FACTOR_exceeds(hm)
    /\ hm.count = 2
    /\ call.value = 2

\* the last step was a put that stored a key the table did not hold
PutInserted ==
    /\ call'.name = "put"
    /\ map # NULL
    /\ get(map, hm, pairs, call'.key).status = HM_ERR_KEY_NOT_FOUND
    /\ ret'.status # HM_ERR_MALLOC_FAILED

\* the last step was a resize that returned HM_SUCCESS: called by put, or
\* called directly
ResizeSucceeded ==
    \/ call'.name = "put" /\ ret'.resize = HM_SUCCESS
    \/ call'.name = "resize" /\ ret'.status = HM_SUCCESS

\* count / size > 0.75 over the rationals
OverThreshold(count, size) ==
    IF size <= 0 \/ size > 4 * count THEN FALSE ELSE 4 * count > 3 * size

\* s = 2 * t
IsDouble(s, t) == s > 0 /\ s % 2 = 0 /\ s \div 2 = t

\* C5, the part on when resize is called and on what else changes size: a put
\* that inserts calls resize exactly when (count + 1) / size > 0.75; nothing
\* but a successful resize changes size; at size 4 the inserts that bring
\* count to 1, 2, 3 leave the size and the one that brings it to 4 makes it 8,
\* with all four keys found.
C5_Trigger ==
    [][/\ PutInserted =>
              (ret'.resize # NotCalled <=> OverThreshold(hm.count + 1, hm.size))
       /\ (map # NULL /\ hm'.size # hm.size) => ResizeSucceeded
       /\ (PutInserted /\ hm.size = 4 /\ hm.count < 3) => hm'.size = 4
       /\ (PutInserted /\ hm.size = 4 /\ hm.count = 3 /\ ret'.status = HM_SUCCESS)
              => /\ hm'.size = 8
                 /\ \A k \in DOMAIN abs' :
                        get(map', hm', pairs', k) =
                            [status |-> HM_SUCCESS, value |-> abs'[k]]]_vars

\* C5: as C5_Trigger, and a successful resize exactly doubles size.
C5_ResizeRule ==
    [][/\ PutInserted =>
              (ret'.resize # NotCalled <=> OverThreshold(hm.count + 1, hm.size))
       /\ ResizeSucceeded => IsDouble(hm'.size, hm.size)
       /\ (map # NULL /\ hm'.size # hm.size) => ResizeSucceeded
       /\ (PutInserted /\ hm.size = 4 /\ hm.count < 3) => hm'.size = 4
       /\ (PutInserted /\ hm.size = 4 /\ hm.count = 3 /\ ret'.status = HM_SUCCESS)
              => /\ hm'.size = 8
                 /\ \A k \in DOMAIN abs' :
                        get(map', hm', pairs', k) =
                            [status |-> HM_SUCCESS, value |-> abs'[k]]]_vars

\* C6: a successful resize relinks the pairs it found: the same pairs are
\* linked after it as before it (with the pair a put has just inserted), each
\* once, with its key and value; count is the count before; no pair is
\* allocated or freed.
C6_ResizePreserves ==
    [][ResizeSucceeded =>
          LET added == DOMAIN pairs' \ DOMAIN pairs
          IN  /\ DOMAIN pairs \subseteq DOMAIN pairs'
              /\ Cardinality(added) = IF call'.name = "put" THEN 1 ELSE 0
              /\ Linked(hm', pairs') = Linked(hm, pairs) \cup added
              /\ Cardinality(Places(hm', pairs')) = Cardinality(Linked(hm', pairs'))
              /\ hm'.count = hm.count + Cardinality(added)
              /\ \A a \in DOMAIN pairs :
                     /\ pairs'[a].key = pairs[a].key
                     /\ pairs'[a].value = pairs[a].value
              /\ \A a \in added :
                     /\ pairs'[a].key = call'.key
                     /\ pairs'[a].value = call'.value
              /\ Contents(hm', pairs') =
                     Contents(hm, pairs) \cup
                         {<<pairs'[a].key, pairs'[a].value>> : a \in added}]_vars

\* a direct resize moved three entries, two of them out of one chain
C6_Witness ==
    /\ call.name = "resize"
    /\ ret.status = HM_SUCCESS
    /\ hm.count = 3
    /\ hm.size = 8
    /\ Cardinality(DOMAIN hm.buckets) = 2

INT_MAX == 2147483647

\* 2 * size is not an int
DoublingOverflows(size) == size > INT_MAX \div 2 \/ size < (-INT_MAX - 1) \div 2

\* C7: when 2 * size is not an int, resize returns HM_ERR_SIZE_LIMIT and
\* leaves the map and every pair as they were.
C7_SizeLimit ==
    [][(call'.name = "resize" /\ map # NULL /\ DoublingOverflows(hm.size))
       => /\ ret'.status = HM_ERR_SIZE_LIMIT
          /\ hm' = hm
          /\ pairs' = pairs]_vars

\* C8: size is positive, so the bucket index of every key is defined and
\* inside the bucket array.
C8_SizePositive ==
    map # NULL => hm.size > 0 /\ \A k \in Keys : InBounds(k, hm.size)

\* the bucket heads and pairs after the pair new with (key, value) is put at
\* the head of its chain, everything else as in (m, ps)
Prepended(m, ps, m2, ps2, new, key, value) ==
    LET index == HASH_INDEX(key, m.size)
    IN  /\ new \notin DOMAIN ps
        /\ DOMAIN ps2 = DOMAIN ps \cup {new}
        /\ ps2[new] = [key |-> key, value |-> value,
                       next |-> BucketHead(m.buckets, index)]
        /\ \A a \in DOMAIN ps : ps2[a] = ps[a]
        /\ DOMAIN m2.buckets = DOMAIN m.buckets \cup {index}
        /\ \A i \in DOMAIN m2.buckets :
               m2.buckets[i] = IF i = index THEN new ELSE m.buckets[i]

\* C9: a put whose resize fails returns HM_ERR_REHASHING_FAILED (and only
\* such a put does); the key was absent and is stored at the head of its
\* chain, get finds it with its value, count is one more, and size, every
\* other bucket head and every other pair are as before the call; count and
\* the bucket indices are right for the unchanged size.
C9_RehashFailed ==
    [][/\ (call'.name = "put" /\ ret'.resize \notin {NotCalled, HM_SUCCESS})
          => /\ ret'.status = HM_ERR_REHASHING_FAILED
             /\ get(map, hm, pairs, call'.key).status = HM_ERR_KEY_NOT_FOUND
             /\ get(map', hm', pairs', call'.key) =
                    [status |-> HM_SUCCESS, value |-> call'.value]
             /\ hm'.count = hm.count + 1
             /\ hm'.size = hm.size
             /\ \E new \in DOMAIN pairs' :
                    Prepended(hm, pairs, hm', pairs', new, call'.key, call'.value)
             /\ hm'.count = Cardinality(Places(hm', pairs'))
             /\ \A pl \in Places(hm', pairs') :
                    HASH_INDEX(pairs'[PairAt(hm', pairs', pl)].key, hm'.size) = pl[1]
       /\ ret'.status = HM_ERR_REHASHING_FAILED
          => (call'.name = "put" /\ ret'.resize \notin {NotCalled, HM_SUCCESS})]_vars

\* a put returned HM_ERR_REHASHING_FAILED after the calloc of resize failed,
\* its key at the head of a chain of three
C9_Witness ==
    /\ call.name = "put"
    /\ ret.status = HM_ERR_REHASHING_FAILED
    /\ ret.resize = HM_ERR_MALLOC_FAILED
    /\ \E i \in DOMAIN hm.buckets :
           /\ Len(Chain(hm, pairs, i)) = 3
           /\ pairs[hm.buckets[i]].key = call.key

\* C10: a put of an absent key whose malloc of the pair or of the key fails
\* returns HM_ERR_MALLOC_FAILED (and only such a put does) and changes
\* nothing: the map, the bucket heads and every pair are as before, and the
\* key is still absent.
C10_MallocFailed ==
    [][/\ (call'.name = "put" /\ ret'.perror \in {"new pair", "key string"})
          => /\ ret'.status = HM_ERR_MALLOC_FAILED
             /\ hm' = hm
             /\ pairs' = pairs
             /\ map' = map
             /\ get(map, hm, pairs, call'.key).status = HM_ERR_KEY_NOT_FOUND
             /\ get(map', hm', pairs', call'.key).status = HM_ERR_KEY_NOT_FOUND
       /\ (call'.name = "put" /\ ret'.status = HM_ERR_MALLOC_FAILED)
          => ret'.perror \in {"new pair", "key string"}]_vars

\* the malloc of the key failed in a put on a table holding two entries
C10_Witness ==
    /\ call.name = "put"
    /\ ret.status = HM_ERR_MALLOC_FAILED
    /\ ret.perror = "key string"
    /\ hm.count = 2

\* C11: delete_key of a key the table does not hold (an empty table included)
\* returns HM_ERR_KEY_NOT_FOUND, as no other delete_key does, and leaves the
\* struct, the bucket heads and every pair as they were: the state later
\* calls start from is the state before the call.
C11_DeleteAbsent ==
    [][/\ (/\ call'.name = "delete_key"
           /\ map # NULL
           /\ get(map, hm, pairs, call'.key).status = HM_ERR_KEY_NOT_FOUND)
          => /\ ret'.status = HM_ERR_KEY_NOT_FOUND
             /\ map' = map
             /\ hm' = hm
             /\ pairs' = pairs
             /\ abs' = abs
       /\ (call'.name = "delete_key" /\ ret'.status = HM_ERR_KEY_NOT_FOUND)
          => get(map, hm, pairs, call'.key).status = HM_ERR_KEY_NOT_FOUND]_vars

\* delete_key missed its key after walking a chain of two other keys
C11_Witness ==
    /\ call.name = "delete_key"
    /\ ret.status = HM_ERR_KEY_NOT_FOUND
    /\ Len(Chain(hm, pairs, HASH_INDEX(call.key, hm.size))) = 2

\* C12: c_hashmap with a size <= 0 returns NULL; with a positive size, when
\* neither allocation fails, it returns a map with that size, count 0 and
\* every bucket head NULL, in which get finds no key.
C12_Create ==
    [][call'.name = "c_hashmap" =>
          /\ call'.value <= 0 => (map' = NULL /\ ret'.status = "NULL")
          /\ (call'.value > 0 /\ ret'.perror = NoError)
             => /\ map' # NULL
                /\ ret'.status = "hashmap"
                /\ hm'.size = call'.value
                /\ hm'.count = 0
                /\ \A i \in DOMAIN hm'.buckets : hm'.buckets[i] = NULL
                /\ Places(hm', pairs') = {}
                /\ \A k \in Keys :
                       get(map', hm', pairs', k) =
                           [status |-> HM_ERR_KEY_NOT_FOUND, value |-> NoValue]
          /\ (call'.value > 0 /\ ret'.perror # NoError) => map' = NULL]_vars

\* c_hashmap has just returned a map of four buckets
C12_Witness ==
    /\ call.name = "c_hashmap"
    /\ call.value = 4
    /\ map # NULL
    /\ hm.size = 4

\* C13: after clear, contains_key is false for every key, count is 0, every
\* bucket head is NULL, no pair is left, and size is what it was.
C13_Clear ==
    [][(call'.name = "clear" /\ map # NULL)
       => /\ ret'.status = HM_SUCCESS
          /\ hm'.count = 0
          /\ \A i \in DOMAIN hm.buckets : BucketHead(hm'.buckets, i) = NULL
          /\ DOMAIN hm'.buckets = {}
          /\ Linked(hm', pairs') = {}
          /\ hm'.size = hm.size
          /\ \A k \in Keys : ~contains_key(map', hm', pairs', k)
          /\ \A k \in DOMAIN abs : ~contains_key(map', hm', pairs', k)]_vars

\* clear has freed three pairs
C13_Witness ==
    /\ call.name = "clear"
    /\ ret.status = HM_SUCCESS
    /\ ret.value = 3
    /\ hm.size = 4

\* C14, the part on delete_key: delete_key never changes size.
C14_DeleteKeepsSize ==
    [][call'.name = "delete_key" => hm'.size = hm.size]_vars

\* C14: size never decreases, and delete_key never changes it.
C14_OnlyGrows ==
    [][/\ map # NULL => hm'.size >= hm.size
       /\ call'.name = "delete_key" => hm'.size = hm.size]_vars

\* how often the pair a occurs in the sequence seq
CountIn(seq, a) == Cardinality({n \in DOMAIN seq : seq[n] = a})

\* how often the pair a is met in what is left of the old chains: from current
\* on, and in the chains of the old heads not yet fetched
OldCount(a) ==
    CountIn(chain_from(pairs, rs.current, MaxPairs + 1), a)
    + Cardinality({pl \in Places([buckets |-> rs.old], pairs) :
                       PairAt([buckets |-> rs.old], pairs, pl) = a})

\* how often the pair a is met in the chains of the new array
NewCount(a) ==
    Cardinality({pl \in Places(hm, pairs) : PairAt(hm, pairs, pl) = a})

\* the step by step resize returns what resize returns
RehashAgrees ==
    (rs.pc = "loop" /\ LoopDone)
    => LET r == resize(map, rs.pre_hm, rs.pre_pairs, TRUE)
       IN  hm = r.hm /\ pairs = r.pairs

\* C15: at every turn of the loops of resize each entry the table held is
\* met exactly once, in what is left of the old chains or in a chain of the
\* new array, the new array holds no other pair, and count is the number of
\* entries relinked so far; when the loops end nothing is left of the old
\* chains and count is the count before the resize.
C15_RehashLoop ==
    rs.pc = "loop" =>
        /\ \A a \in Linked(rs.pre_hm, rs.pre_pairs) : OldCount(a) + NewCount(a) = 1
        /\ Linked(hm, pairs) \subseteq Linked(rs.pre_hm, rs.pre_pairs)
        /\ hm.count = Cardinality(Places(hm, pairs))
        /\ DOMAIN pairs = DOMAIN rs.pre_pairs
        /\ LoopDone => /\ hm.count = rs.pre_hm.count
                       /\ Linked(hm, pairs) = Linked(rs.pre_hm, rs.pre_pairs)

\* in the middle of a resize of three entries: one relinked, one being
\* walked, one in an old bucket not yet fetched
C15_Witness ==
    /\ rs.pc = "loop"
    /\ rs.pre_hm.count = 3
    /\ hm.count = 1
    /\ rs.current # NULL
    /\ DOMAIN rs.old # {}

\* the place of the pair a in the order of insertion
Stamp(ord, a) == CHOOSE k \in 1..Len(ord) : ord[k] = a

\* in every chain a pair nearer the head was inserted later
NewestFirst(m, ps, ord) ==
    \A i \in DOMAIN m.buckets :
        LET c == Chain(m, ps, i)
        IN  \A x, y \in 1..Len(c) : x < y => Stamp(ord, c[x]) > Stamp(ord, c[y])

\* the pairs <<a, b>> of pairs with a met before b in one chain
Before(m, ps) ==
    UNION {LET c == Chain(m, ps, i)
           IN  UNION {{<<c[x], c[y]>> : y \in (x + 1)..Len(c)} : x \in 1..Len(c)}
           : i \in DOMAIN m.buckets}

\* C16: every chain is in reverse order of insertion, the most recently
\* inserted entry first (so an entry just inserted is the head of its chain),
\* after any sequence of calls.
C16_NewestFirst ==
    map # NULL => NewestFirst(hm, pairs, order)

\* C16 as amended: a call that does not resize keeps the order of the
\* entries of every chain and links an entry it inserts at the head of its
\* chain (chains are newest first until a resize succeeds); a successful
\* resize puts entries that share a chain after it, and shared one before it,
\* in the reverse of their order, and the entry whose put called it last.
C16_OrderRule ==
    [][map # NULL =>
          LET added == DOMAIN pairs' \ DOMAIN pairs
              stay == Linked(hm, pairs) \cap Linked(hm', pairs')
              was == {p \in Before(hm, pairs) : p[1] \in stay /\ p[2] \in stay}
              all == Before(hm', pairs')
              is == {p \in all : p[1] \in stay /\ p[2] \in stay}
          IN  IF ResizeSucceeded
              THEN /\ \A p \in is : <<p[2], p[1]>> \in was
                   /\ \A n \in added : \A p \in all : p[1] # n
              ELSE /\ is = was
                   /\ \A n \in added :
                          /\ n \in Linked(hm', pairs')
                          /\ \A p \in all : p[2] # n
                   /\ NewestFirst(hm, pairs, order) => NewestFirst(hm', pairs', order')]_vars

\* a put has resized the table and left a chain with an older entry first
C16_Witness ==
    /\ call.name = "put"
    /\ ret.resize = HM_SUCCESS
    /\ ~NewestFirst(hm, pairs, order)

\* h * 33 + b modulo 2^64, for a byte value b in 0..255
FoldStep(h, b) == ULNorm[[i \in Limbs |-> h[i] * 33 + (IF i = 1 THEN b ELSE 0)]]

\* the fold h0 = 5381, h_{i+1} = (h_i * 33 + byte_i) mod 2^64 over the bytes of
\* string from position i on
RECURSIVE Fold(_, _, _)
Fold(string, i, h) ==
    IF i > Len(string) THEN h
    ELSE CHOOSE r \in {Fold(string, i + 1, g) : g \in {FoldStep(h, string[i])}} : TRUE

\* C17, for strings of bytes below 128: hash is the fold; the empty string
\* hashes to 5381.
C17_HashFoldAscii ==
    (hrun.pc = "returned" /\ \A n \in DOMAIN hrun.string : hrun.string[n] < 128)
    => /\ hrun.result = Fold(hrun.string, 1, UL(5381))
       /\ hrun.string = <<>> => hrun.result = UL(5381)

\* C17: hash(key) is the fold over the bytes of the key, for every string:
\* the empty one, whose hash is 5381, and those with bytes of value >= 128.
C17_HashFold ==
    hrun.pc = "returned"
    => /\ hrun.result = Fold(hrun.string, 1, UL(5381))
       /\ hrun.string = <<>> => hrun.result = UL(5381)

\* C18: no two places of the table hold pairs with equal keys, and after
\* delete_key(k) no pair with the key k is linked.
C18_UniqueKeys ==
    map # NULL =>
        /\ \A p, q \in Places(hm, pairs) :
               pairs[PairAt(hm, pairs, p)].key = pairs[PairAt(hm, pairs, q)].key
               => p = q
        /\ call.name = "delete_key"
           => \A a \in Linked(hm, pairs) : pairs[a].key # call.key

\* delete_key removed a key from a resized table that puts had updated; three
\* keys remain
C18_Witness ==
    /\ call.name = "delete_key"
    /\ ret.status = HM_SUCCESS
    /\ hm.size = 8
    /\ hm.count = 3
    /\ \A k \in DOMAIN abs : abs[k] = 2

\* 4 * count <= 3 * size, for a count >= 0
WithinLoad(count, size) == size > 0 /\ ~OverThreshold(count, size)

\* C19, one call at a time: a put or delete_key on a table within the
\* threshold returns with the table within the threshold.
C19_StepKeepsLoad ==
    [][(/\ map # NULL
        /\ call'.name \in {"put", "delete_key"}
        /\ WithinLoad(hm.count, hm.size))
       => WithinLoad(hm'.count, hm'.size)]_vars

\* C19: no resize having failed, 4 * count <= 3 * size when c_hashmap, put
\* and delete_key return.
C19_LoadWithin ==
    (map # NULL /\ call.name \in {"c_hashmap", "put", "delete_key"})
    => WithinLoad(hm.count, hm.size)

=============================================================================
